---- MODULE Spec2Model ----
(***************************************************************************)
(* Model of bot.py: the bill-splitting conversation of the Telegram bot.   *)
(*                                                                         *)
(* State: the ConversationHandler's table of conversation states, keyed    *)
(* by (chat, user); the framework's context.user_data, keyed by user; and  *)
(* a record of the update that was dispatched last (what was routed where, *)
(* what the handler sent and called, how it ended).                        *)
(*                                                                         *)
(* Updates are processed one at a time (Application.builder() keeps the    *)
(* default of no concurrent updates), so each handler is one atomic step.  *)
(***************************************************************************)
EXTENDS Integers, Sequences, FiniteSets, TLC

\* ------------------------------------------------------------------ bounds
\* The number of group chats the users share, and of assignment texts a
\* user may send.
NumGroups == 1
NumTexts == 2

\* Telegram ids: users have positive ids, group chats negative ones, and a
\* user's private chat has the user's own id.
Users == { 1, 2 }
Groups == { -g : g \in 1..NumGroups }
\* The users who have also opened a private chat with the bot.
PrivateUsers == { 1 }
\* A conversation identity: ConversationHandler's default key (per_chat and
\* per_user), <<chat, user>>.
Keys == { <<u, u>> : u \in PrivateUsers } \cup { <<g, u>> : g \in Groups, u \in Users }

\* --------------------------------------------------- conversation states
\* No entry in the ConversationHandler's table (also after ConversationHandler.END).
IDLE == "IDLE"
RECEIVE_ASSIGNMENTS == "RECEIVE_ASSIGNMENTS"
END == "END"
\* A handler that returns nothing leaves the conversation where it is.
NONE == "NONE"
\* The handler raised: the exception left the handler, the table is not updated.
RAISED == "RAISED"

\* --------------------------------------------------------- JSON values
\* An item of the receipt: {"name": ..., "price": ...}; an item the service
\* returned without its "price" key has hasPrice = FALSE.
ItemValues ==
    { [name |-> "Burger", hasPrice |-> TRUE, price |-> 10],
      [name |-> "Salad", hasPrice |-> TRUE, price |-> 8],
      [name |-> "Water", hasPrice |-> FALSE, price |-> 0] }

Item(name) == CHOOSE i \in ItemValues : i.name = name

\* The items lists of the receipts: none, one item, two items, and one item
\* without a price.
ItemLists ==
    { << >>, <<Item("Burger")>>, <<Item("Burger"), Item("Salad")>>,
      <<Item("Water")>> }

\* A JSON object the service may return: "items" present or not, "tax".
JsonObjects ==
    { [hasItems |-> TRUE, items |-> l, tax |-> 1] : l \in ItemLists }
    \cup { [hasItems |-> FALSE, items |-> << >>, tax |-> 1] }

\* The assignment texts a user may send.
AllTexts ==
    <<"Alice: Burger. Bob: Salad", "Everyone: Tacos", "Alice: Burger, Fries",
      "Bob: Salad">>
Texts == { AllTexts[i] : i \in 1..NumTexts }

\* The text of a response: a body that is either the text of a JSON object or
\* free text json.loads rejects, with or without a code fence around it.
FENCE == "fence-json"
TAIL == "fence"
NoObject == [hasItems |-> FALSE, items |-> << >>, tax |-> 1]
FreeText == [head |-> "", isJson |-> FALSE, obj |-> NoObject, tail |-> ""]
ResponseTexts ==
    { [head |-> f[1], isJson |-> TRUE, obj |-> o, tail |-> f[2]] :
        f \in {<<"", "">>, <<FENCE, TAIL>>}, o \in JsonObjects }
    \cup { FreeText }

\* model.generate_content(...) raises, or returns a response with a text.
Responses ==
    { [raises |-> TRUE, text |-> FreeText] }
    \cup { [raises |-> FALSE, text |-> x] : x \in ResponseTexts }

\* response.text.strip().lstrip(FENCE).rstrip(TAIL)
CleanResponse(text) == [text EXCEPT !.head = "", !.tail = ""]

\* json.loads: the object, or a failure.
JsonLoads(text) ==
    IF text.isJson /\ text.head = "" /\ text.tail = ""
    THEN [ok |-> TRUE, value |-> text.obj]
    ELSE [ok |-> FALSE, value |-> text.obj]

\* items not in bill_data, or not bill_data[items]
NoItems(bill_data) == ~bill_data.hasItems \/ Len(bill_data.items) = 0

\* The summary loop formats the name and the price of each item: it raises on an
\* item that lacks its price.
SummaryFormats(bill_data) ==
    \A i \in 1..Len(bill_data.items) : bill_data.items[i].hasPrice

\* ------------------------------------------------------- handler traces
\* What a handler did, in order: the messages it sent with reply_text (ok: the
\* send went through; a send that fails raises) and the calls it made to
\* model.generate_content (ok: the call returned), with what it passed
\* (the stored bill and the assignment text) and the text that came back.
Send(what, ok) ==
    [op |-> "send", what |-> what, ok |-> ok, bill |-> << >>, text |-> "",
     body |-> FreeText]
Forward(what, ok, body) ==
    [op |-> "send", what |-> what, ok |-> ok, bill |-> << >>, text |-> "",
     body |-> body]
Infer(what, resp, bill, text) ==
    [op |-> "infer", what |-> what, ok |-> ~resp.raises, bill |-> bill,
     text |-> text, body |-> resp.text]

Result(ret, data, trace) == [ret |-> ret, data |-> data, trace |-> trace]

\* The except clause of start_bill_split_convo: log, notify, end. errOk: the
\* notice goes through; if it does not, the exception leaves the handler.
ExtractionFailed(data, trace, errOk) ==
    Result(IF errOk THEN END ELSE RAISED, data,
           Append(trace, Send("trouble reading", errOk)))

\* A store that leaves user_data as it was.
Store_nothing(data, bill_data) == data

\* context.user_data[bill_data] = bill_data
Store(data, bill_data) == <<bill_data>>

\* start_bill_split_convo. data: this user's user_data (empty, or holding
\* bill_data). in.ack, in.reply, in.err: whether the acknowledgement, the
\* summary or no-items reply, and the failure notice go through; in.img:
\* whether the photo downloads and opens; in.resp: what the service does.
start_bill_split_convo(data, in) ==
    LET ack == Send("got your photo", in.ack)
        call == Infer("extract", in.resp, << >>, "")
        json_text == CleanResponse(in.resp.text)
        parsed == JsonLoads(json_text)
        bill_data == parsed.value
        stored == Store(data, bill_data)
    IN  IF ~in.ack THEN Result(RAISED, data, <<ack>>)
        ELSE IF ~in.img THEN ExtractionFailed(data, <<ack>>, in.err)
        ELSE IF in.resp.raises \/ ~parsed.ok
            THEN ExtractionFailed(data, <<ack, call>>, in.err)
        ELSE IF NoItems(bill_data)
            THEN IF in.reply
                 THEN Result(END, data, <<ack, call, Send("no items", TRUE)>>)
                 ELSE ExtractionFailed(data, <<ack, call, Send("no items", FALSE)>>,
                                       in.err)
        ELSE IF ~SummaryFormats(bill_data)
            THEN ExtractionFailed(stored, <<ack, call>>, in.err)
        ELSE IF in.reply
            THEN Result(RECEIVE_ASSIGNMENTS, stored,
                        <<ack, call, Forward("summary", TRUE, json_text)>>)
        ELSE ExtractionFailed(stored,
                              <<ack, call, Forward("summary", FALSE, json_text)>>,
                              in.err)

\* receive_assignments. in.text: the message text; in.ack: whether the first
\* reply (session missing, or got it) goes through; in.reply, in.err: whether
\* the forwarded result and the failure notice go through.
receive_assignments(data, in) ==
    LET bill_data == data
        call == Infer("calculate", in.resp, bill_data, in.text)
    IN  IF bill_data = << >>
            THEN Result(IF in.ack THEN END ELSE RAISED, data,
                        <<Send("send the photo again", in.ack)>>)
        ELSE IF ~in.ack THEN Result(RAISED, data, <<Send("got it", FALSE)>>)
        ELSE IF ~in.resp.raises /\ in.reply
            THEN Result(END, << >>,
                        <<Send("got it", TRUE), call,
                          Forward("result", TRUE, in.resp.text)>>)
        ELSE LET tried == IF in.resp.raises
                          THEN <<Send("got it", TRUE), call>>
                          ELSE <<Send("got it", TRUE), call,
                                 Forward("result", FALSE, in.resp.text)>>
             IN  IF in.err
                 THEN Result(END, << >>,
                             Append(tried, Send("trouble calculating", TRUE)))
                 ELSE Result(RAISED, data,
                             Append(tried, Send("trouble calculating", FALSE)))

\* cancel_command: notify, then clear user_data and end.
cancel_command(data, in) ==
    IF in.ack
    THEN Result(END, << >>, <<Send("cancelled", TRUE)>>)
    ELSE Result(RAISED, data, <<Send("cancelled", FALSE)>>)

\* A start_command that also resets the session.
start_command_resets(data, in) ==
    Result(IF in.ack THEN NONE ELSE RAISED, << >>, <<Send("welcome", in.ack)>>)

\* start_command: one welcome message.
start_command(data, in) ==
    Result(IF in.ack THEN NONE ELSE RAISED, data, <<Send("welcome", in.ack)>>)

\* split_command. in.args: "valid" (a total and a positive number of people),
\* "zero" (people <= 0) or "malformed" (missing or non-numeric arguments).
\* The replies of the try block are covered by its except Exception clause;
\* the usage reply is sent from an except clause and is not.
split_command(data, in) ==
    IF in.args = "malformed"
    THEN Result(IF in.ack THEN NONE ELSE RAISED, data, <<Send("usage", in.ack)>>)
    ELSE LET first == Send(IF in.args = "zero" THEN "at least 1" ELSE "each pays",
                           in.ack)
         IN  IF in.ack THEN Result(NONE, data, <<first>>)
             ELSE Result(IF in.err THEN NONE ELSE RAISED, data,
                         <<first, Send("trouble splitting", in.err)>>)

\* gemini_command. in.args: "" (no question) or the question.
gemini_command(data, in) ==
    LET call == Infer("ask", in.resp, << >>, in.args)
    IN  IF in.args = ""
            THEN Result(IF in.ack THEN NONE ELSE RAISED, data,
                        <<Send("ask a question", in.ack)>>)
        ELSE IF ~in.ack THEN Result(RAISED, data, <<Send("asking", FALSE)>>)
        ELSE IF ~in.resp.raises /\ in.reply
            THEN Result(NONE, data,
                        <<Send("asking", TRUE), call,
                          Forward("answer", TRUE, in.resp.text)>>)
        ELSE LET tried == IF in.resp.raises
                          THEN <<Send("asking", TRUE), call>>
                          ELSE <<Send("asking", TRUE), call,
                                 Forward("answer", FALSE, in.resp.text)>>
             IN  Result(IF in.err THEN NONE ELSE RAISED, data,
                        Append(tried, Send("foggy", in.err)))

\* unknown_command: one message.
unknown_command(data, in) ==
    Result(IF in.ack THEN NONE ELSE RAISED, data,
           <<Send("unknown command", in.ack)>>)

\* ------------------------------------------------------------- routing
\* The kinds of update: a photo, a text that is no command, and commands.
Commands == { "/cancel", "/start", "/split", "/gemini", "/other" }
Updates == { "photo", "text" } \cup Commands

\* The handlers of group 0 that follow the ConversationHandler, in the order
\* main() adds them: the first whose filter matches takes the update.
SimpleRoute(update) ==
    IF update = "/start" THEN "start_command"
    ELSE IF update = "/split" THEN "split_command"
    ELSE IF update = "/gemini" THEN "gemini_command"
    ELSE IF update \in Commands THEN "unknown_command"
    ELSE "none"

\* Route as it would be with allow_reentry set: the entry points are tried
\* first in every state.
Route_allow_reentry(state, update) ==
    IF update = "photo" THEN "start_bill_split_convo"
    ELSE IF state = RECEIVE_ASSIGNMENTS /\ update = "text"
        THEN "receive_assignments"
    ELSE IF state = RECEIVE_ASSIGNMENTS /\ update = "/cancel"
        THEN "cancel_command"
    ELSE SimpleRoute(update)

\* Route as it would be with the text handler registered in every state.
Route_text_anywhere(state, update) ==
    IF state = IDLE /\ update = "photo" THEN "start_bill_split_convo"
    ELSE IF update = "text" THEN "receive_assignments"
    ELSE IF state = RECEIVE_ASSIGNMENTS /\ update = "/cancel"
        THEN "cancel_command"
    ELSE SimpleRoute(update)

\* Which handler takes an update of a conversation in the given state. The
\* ConversationHandler is built without allow_reentry: with no conversation
\* under way it tries its entry points only (the photo handler); in
\* RECEIVE_ASSIGNMENTS it tries the handlers of that state, then the
\* fallbacks. What it does not take goes on to the simple handlers.
Route(state, update) ==
    IF state = IDLE /\ update = "photo" THEN "start_bill_split_convo"
    ELSE IF state = RECEIVE_ASSIGNMENTS /\ update = "text"
        THEN "receive_assignments"
    ELSE IF state = RECEIVE_ASSIGNMENTS /\ update = "/cancel"
        THEN "cancel_command"
    ELSE SimpleRoute(update)

\* A table that does not drop the conversation when the handler returns END.
NewState_keeps(state, ret) ==
    IF ret = RECEIVE_ASSIGNMENTS THEN RECEIVE_ASSIGNMENTS ELSE state

\* The state the ConversationHandler records for what the handler returned.
NewState(state, ret) ==
    IF ret = END THEN IDLE
    ELSE IF ret = RECEIVE_ASSIGNMENTS THEN RECEIVE_ASSIGNMENTS
    ELSE state

\* --------------------------------------------------------------- state
VARIABLES
    conversations,  \* ConversationHandler: (chat, user) -> state
    user_data,      \* context.user_data: user -> empty, or <<bill_data>>
    last,           \* the update dispatched last and what its handler did
    pending         \* (chat, user) -> what the extraction that opened the
                    \* round under way stored; empty when no round is under way

vars == <<conversations, user_data, last, pending>>

NoInput ==
    [args |-> "", text |-> "", img |-> TRUE,
     resp |-> [raises |-> TRUE, text |-> FreeText],
     ack |-> TRUE, reply |-> TRUE, err |-> TRUE]

\* No update is being processed.
Polling ==
    [key |-> <<1, 1>>, update |-> "none", handler |-> "none",
     state0 |-> IDLE, data0 |-> << >>, ret |-> NONE, trace |-> << >>,
     text |-> "", pending0 |-> << >>]

Init ==
    /\ conversations = [k \in Keys |-> IDLE]
    /\ user_data = [u \in Users |-> << >>]
    /\ last = Polling
    /\ pending = [k \in Keys |-> << >>]

\* The application takes one update of conversation k from the queue and
\* dispatches it to the handler that takes it; res is what the handler did.
\* Updates are processed one after the other.
\* text is the text of the message, for the handler that reads it.
Deliver(k, update, text, handler, res) ==
    /\ last = Polling
    /\ conversations' = [conversations EXCEPT ![k] = NewState(@, res.ret)]
    /\ user_data' = [user_data EXCEPT ![k[2]] = res.data]
    /\ pending' = [pending EXCEPT ![k] =
                      IF NewState(conversations[k], res.ret) = IDLE THEN << >>
                      ELSE IF res.ret = RECEIVE_ASSIGNMENTS THEN res.data
                      ELSE @]
    /\ last' = [key |-> k, update |-> update, handler |-> handler,
                state0 |-> conversations[k], data0 |-> user_data[k[2]],
                ret |-> res.ret, trace |-> res.trace,
                text |-> text, pending0 |-> pending[k]]

Dispatch(k, update, handler, res) == Deliver(k, update, "", handler, res)

\* What user_data may hold for one user.
UserData == { << >> } \cup { <<o>> : o \in JsonObjects }

\* The inputs of a handler run: what the update carries (args, text), what
\* the outside world does (img: the photo downloads and opens; resp: the
\* inference service; ack, reply, err: whether the first reply, the reply with
\* the outcome and the failure notice go through).
FreeResponses == { r \in Responses : r.text = FreeText }
PhotoInputs ==
    [args : {""}, text : {""}, img : BOOLEAN, resp : Responses,
     ack : BOOLEAN, reply : BOOLEAN, err : BOOLEAN]
TextInputs ==
    [args : {""}, text : Texts, img : {TRUE}, resp : FreeResponses,
     ack : BOOLEAN, reply : BOOLEAN, err : BOOLEAN]
CommandInputs ==
    [args : {""}, text : {""}, img : {TRUE}, resp : {NoInput.resp},
     ack : BOOLEAN, reply : {TRUE}, err : {TRUE}]
SplitInputs ==
    [args : {"valid", "zero", "malformed"}, text : {""}, img : {TRUE},
     resp : {NoInput.resp}, ack : BOOLEAN, reply : {TRUE}, err : BOOLEAN]
GeminiInputs ==
    [args : {"", "How to save money?"}, text : {""}, img : {TRUE},
     resp : FreeResponses, ack : BOOLEAN, reply : BOOLEAN, err : BOOLEAN]

\* Every run of each handler on each content of user_data.
PhotoRuns[d \in UserData] == { start_bill_split_convo(d, in) : in \in PhotoInputs }
TextRuns[d \in UserData] ==
    { [text |-> in.text, res |-> receive_assignments(d, in)] : in \in TextInputs }
CancelRuns[d \in UserData] == { cancel_command(d, in) : in \in CommandInputs }
StartRuns[d \in UserData] == { start_command(d, in) : in \in CommandInputs }
SplitRuns[d \in UserData] == { split_command(d, in) : in \in SplitInputs }
GeminiRuns[d \in UserData] == { gemini_command(d, in) : in \in GeminiInputs }
UnknownRuns[d \in UserData] == { unknown_command(d, in) : in \in CommandInputs }

Photo(k) ==
    /\ Route(conversations[k], "photo") = "start_bill_split_convo"
    /\ \E res \in PhotoRuns[user_data[k[2]]] :
           Dispatch(k, "photo", "start_bill_split_convo", res)

Text(k) ==
    /\ Route(conversations[k], "text") = "receive_assignments"
    /\ \E run \in TextRuns[user_data[k[2]]] :
           Deliver(k, "text", run.text, "receive_assignments", run.res)

Cancel(k) ==
    /\ Route(conversations[k], "/cancel") = "cancel_command"
    /\ \E res \in CancelRuns[user_data[k[2]]] :
           Dispatch(k, "/cancel", "cancel_command", res)

StartCommand(k) ==
    /\ Route(conversations[k], "/start") = "start_command"
    /\ \E res \in StartRuns[user_data[k[2]]] :
           Dispatch(k, "/start", "start_command", res)

SplitCommand(k) ==
    /\ Route(conversations[k], "/split") = "split_command"
    /\ \E res \in SplitRuns[user_data[k[2]]] :
           Dispatch(k, "/split", "split_command", res)

GeminiCommand(k) ==
    /\ Route(conversations[k], "/gemini") = "gemini_command"
    /\ \E res \in GeminiRuns[user_data[k[2]]] :
           Dispatch(k, "/gemini", "gemini_command", res)

UnknownCommand(k) ==
    \E update \in { c \in Commands :
                       Route(conversations[k], c) = "unknown_command" } :
        \E res \in UnknownRuns[user_data[k[2]]] :
            Dispatch(k, update, "unknown_command", res)

\* An update no handler takes: nothing runs.
Dropped(k) ==
    \E update \in { x \in Updates : Route(conversations[k], x) = "none" } :
        Dispatch(k, update, "none", Result(NONE, user_data[k[2]], << >>))

\* The update has been processed: the application goes back to polling.
Processed ==
    /\ last # Polling
    /\ last' = Polling
    /\ UNCHANGED <<conversations, user_data, pending>>

Next ==
    \/ Processed
    \/ \E k \in Keys :
        \/ Photo(k)
        \/ Text(k)
        \/ Cancel(k)
        \/ StartCommand(k)
        \/ SplitCommand(k)
        \/ GeminiCommand(k)
        \/ UnknownCommand(k)
        \/ Dropped(k)

Spec == Init /\ [][Next]_vars

\* ---------------------------------------------------------- properties
\* The conversation of the update being processed, its state and its session
\* (the BillRecord kept for it: the user_data of its user).
State == conversations[last.key]
Session == user_data[last.key[2]]

\* The inference calls of the handler run, and the messages that reached the
\* user.
Calls == { i \in DOMAIN last.trace : last.trace[i].op = "infer" }
Delivered(what) ==
    \E i \in DOMAIN last.trace :
        /\ last.trace[i].op = "send"
        /\ last.trace[i].what = what
        /\ last.trace[i].ok

\* The extraction call returned a text that parses to bill.
Extracted(bill) ==
    /\ last.handler = "start_bill_split_convo"
    /\ \E i \in Calls :
          /\ last.trace[i].ok
          /\ JsonLoads(CleanResponse(last.trace[i].body)).ok
          /\ JsonLoads(CleanResponse(last.trace[i].body)).value = bill

\* The extraction call raised, or returned a text that does not parse.
ExtractionCallFailed ==
    /\ last.handler = "start_bill_split_convo"
    /\ \E i \in Calls :
          \/ ~last.trace[i].ok
          \/ ~JsonLoads(CleanResponse(last.trace[i].body)).ok

\* A receipt-shaped record: items present, each with its name and price.
ReceiptShaped(bill) == bill.hasItems /\ SummaryFormats(bill)

\* C1: after any run of receive_assignments on a conversation in
\* RECEIVE_ASSIGNMENTS, the session holds no BillRecord and the conversation
\* is idle.
C1_AssignmentAlwaysClears ==
    (last.handler = "receive_assignments" /\ last.state0 = RECEIVE_ASSIGNMENTS)
        => (Session = << >> /\ State = IDLE)

\* C2: an update handled for one conversation changes neither the state nor
\* the stored BillRecord of any other conversation.
C2_ConversationsIsolated ==
    [][\A k \in Keys :
          (last' # Polling /\ last'.key # k)
              => /\ conversations'[k] = conversations[k]
                 /\ user_data'[k[2]] = user_data[k[2]]]_vars

\* C3, as claimed: a photo that arrives in RECEIVE_ASSIGNMENTS runs the
\* extraction again, and after a successful extraction the stored BillRecord
\* is the one of this photo.
C3_LastPhotoWins ==
    (last.update = "photo" /\ last.state0 = RECEIVE_ASSIGNMENTS)
        => /\ last.handler = "start_bill_split_convo"
           /\ last.ret = RECEIVE_ASSIGNMENTS
                 => \E bill \in JsonObjects :
                        Extracted(bill) /\ Session = <<bill>>

\* C3, amended: a photo that arrives in RECEIVE_ASSIGNMENTS is taken by no
\* handler: nothing is sent or called, and the conversation keeps its state
\* and its stored BillRecord.
C3_PhotoIgnoredWhileAwaiting ==
    (last.update = "photo" /\ last.state0 = RECEIVE_ASSIGNMENTS)
        => /\ last.handler = "none"
           /\ last.trace = << >>
           /\ State = RECEIVE_ASSIGNMENTS
           /\ Session = last.data0

C3_Witness ==
    /\ last.update = "photo"
    /\ last.state0 = RECEIVE_ASSIGNMENTS
    /\ Session # << >>

\* C4: /cancel, in whatever state, runs the cancel transition: the user is
\* told of the cancellation, the session is cleared and the conversation is
\* idle.
C4_CancelTotal ==
    last.update = "/cancel"
        => /\ Delivered("cancelled")
           /\ Session = << >>
           /\ State = IDLE

\* C5, as claimed: a photo received in IDLE whose extraction call returns a
\* receipt-shaped record with a non-empty items list stores exactly that
\* record and moves the conversation to RECEIVE_ASSIGNMENTS.
C5_ExtractionStores ==
    \A bill \in JsonObjects :
        (Extracted(bill) /\ last.state0 = IDLE /\ ReceiptShaped(bill)
            /\ ~NoItems(bill))
            => (Session = <<bill>> /\ State = RECEIVE_ASSIGNMENTS)

\* C5, amended: such a photo stores exactly that record, and the conversation
\* moves to RECEIVE_ASSIGNMENTS when the summary reaches the user; when the
\* summary cannot be sent the record is stored all the same and the
\* conversation stays idle.
C5_ExtractionStoresMovesIfSummarySent ==
    \A bill \in JsonObjects :
        (Extracted(bill) /\ last.state0 = IDLE /\ ReceiptShaped(bill)
            /\ ~NoItems(bill))
            => /\ Session = <<bill>>
               /\ Delivered("summary") => State = RECEIVE_ASSIGNMENTS
               /\ ~Delivered("summary") => State = IDLE

C5_Witness ==
    \E bill \in JsonObjects :
        /\ Extracted(bill)
        /\ last.state0 = IDLE
        /\ ReceiptShaped(bill)
        /\ Len(bill.items) = 2
        /\ Session = <<bill>>
        /\ State = RECEIVE_ASSIGNMENTS

\* C6: an extraction whose output lacks the items key or has an empty items
\* list ends with the session empty and the conversation idle.
C6_NoItemsLeavesSessionEmpty ==
    \A bill \in JsonObjects :
        (Extracted(bill) /\ NoItems(bill))
            => (Session = << >> /\ State = IDLE)

\* C7, as claimed: a text that arrives in IDLE gets the send-the-photo-again
\* reply, and no inference call is made.
C7_TextInIdleToldToResend ==
    (last.update = "text" /\ last.state0 = IDLE)
        => (Delivered("send the photo again") /\ Calls = {})

\* C7, amended: a text that arrives in IDLE is taken by no handler: no
\* message is sent, no inference call is made, and the state and the session
\* stay as they were.
C7_TextInIdleIgnored ==
    (last.update = "text" /\ last.state0 = IDLE)
        => /\ last.handler = "none"
           /\ last.trace = << >>
           /\ State = IDLE
           /\ Session = last.data0

C7_Witness ==
    /\ last.update = "text"
    /\ last.state0 = IDLE
    /\ last.handler = "none"

\* C8: a run of receive_assignments with no BillRecord in the session makes
\* no inference call, tells the user to send the photo again and leaves the
\* conversation idle.
C8_MissingSessionEnds ==
    (last.handler = "receive_assignments" /\ last.data0 = << >>)
        => /\ Calls = {}
           /\ Delivered("send the photo again")
           /\ State = IDLE

\* C9: when the extraction call raises or its output does not parse, the
\* user receives the retry notice, the conversation is idle and the session
\* is as it was before the photo, which is empty.
C9_ExtractionFailureLeavesEmpty ==
    ExtractionCallFailed
        => /\ Delivered("trouble reading")
           /\ State = IDLE
           /\ Session = last.data0
           /\ Session = << >>

\* C10: no exception leaves start_bill_split_convo or receive_assignments: a
\* run ends with a message that reached the user, a run that does not move
\* to RECEIVE_ASSIGNMENTS leaves the conversation idle, and a run of
\* receive_assignments leaves the session cleared.
C10_NoExceptionEscapes ==
    last.handler \in {"start_bill_split_convo", "receive_assignments"}
        => /\ last.ret # RAISED
           /\ last.trace[Len(last.trace)].op = "send"
           /\ last.trace[Len(last.trace)].ok
           /\ last.ret # RECEIVE_ASSIGNMENTS => State = IDLE
           /\ last.handler = "receive_assignments" => Session = << >>

\* C11: every inference call of receive_assignments carries the BillRecord
\* that the most recent successful extraction of the same conversation
\* stored, and the text of the message as it came.
C11_CallCarriesOwnBill ==
    last.handler = "receive_assignments"
        => \A i \in Calls :
               /\ last.trace[i].bill = last.pending0
               /\ last.trace[i].text = last.text

\* C12: no conversation is ever stuck. While the application is polling, a
\* conversation in RECEIVE_ASSIGNMENTS can be brought to IDLE by a text and
\* by /cancel, and an idle one can be moved to RECEIVE_ASSIGNMENTS by a
\* photo; an update being processed always completes; and a photo with a
\* valid extraction runs exactly as it does in a fresh conversation (same
\* messages, same call, same record stored, same return value), whatever
\* the rounds before it left behind.
C12_NoStuckState ==
    /\ last = Polling
          => \A k \in Keys :
                 IF conversations[k] = RECEIVE_ASSIGNMENTS
                 THEN /\ ENABLED (Text(k) /\ conversations'[k] = IDLE)
                      /\ ENABLED (Cancel(k) /\ conversations'[k] = IDLE)
                 ELSE ENABLED (Photo(k)
                               /\ conversations'[k] = RECEIVE_ASSIGNMENTS)
    /\ last # Polling => ENABLED Processed
    /\ (/\ last.handler = "start_bill_split_convo"
        /\ \E bill \in JsonObjects :
              Extracted(bill) /\ ReceiptShaped(bill) /\ ~NoItems(bill))
          => [ret |-> last.ret, data |-> Session, trace |-> last.trace]
                 \in PhotoRuns[<< >>]

\* A new round opens in a conversation whose user has no other round under
\* way and whose session still holds what a failed round left.
C12_Witness ==
    /\ last.handler = "start_bill_split_convo"
    /\ last.ret = RECEIVE_ASSIGNMENTS
    /\ last.data0 # << >>
    /\ Session # last.data0
    /\ \A k \in Keys :
          (k[2] = last.key[2] /\ k # last.key) => conversations[k] = IDLE

\* The messages of the handler run that reached the user, by position.
Reached == { i \in DOMAIN last.trace :
               last.trace[i].op = "send" /\ last.trace[i].ok }

\* C13: no inference call is repeated: a photo makes at most one call, an
\* assignment text with a stored BillRecord exactly one, /cancel and the
\* missing-session branch none.
C13_OneCallPerStage ==
    /\ last.handler = "start_bill_split_convo" => Cardinality(Calls) <= 1
    /\ (last.handler = "receive_assignments" /\ last.data0 # << >>)
          => Cardinality(Calls) = 1
    /\ (last.handler = "receive_assignments" /\ last.data0 = << >>)
          => Calls = {}
    /\ last.handler = "cancel_command" => Calls = {}

\* C14: every handled photo gets the acknowledgement first, before any
\* inference call, then exactly one further message (the summary or a
\* failure notice), after the call; and the summary reaches the user only
\* when the conversation moves to RECEIVE_ASSIGNMENTS.
C14_AckCallOneMessage ==
    last.handler = "start_bill_split_convo"
        => /\ 1 \in Reached
           /\ last.trace[1].what = "got your photo"
           /\ \A i \in Calls : i > 1
           /\ Cardinality(Reached \ {1}) = 1
           /\ \A i \in Reached \ {1} : \A j \in Calls : i > j
           /\ Delivered("summary") => State = RECEIVE_ASSIGNMENTS

\* C15: a conversation leaves RECEIVE_ASSIGNMENTS only in the step that
\* handles a text, a photo or /cancel of that conversation (never by itself,
\* never on an update of another conversation), and /start, /split, /gemini
\* and unknown commands handled in RECEIVE_ASSIGNMENTS leave the state and
\* the stored BillRecord as they were.
C15_OnlyTextPhotoCancelLeave ==
    [][/\ \A k \in Keys :
            (conversations[k] = RECEIVE_ASSIGNMENTS
                /\ conversations'[k] # RECEIVE_ASSIGNMENTS)
                => /\ last'.key = k
                   /\ last'.update \in {"text", "photo", "/cancel"}
       /\ \A k \in Keys :
            (conversations[k] = RECEIVE_ASSIGNMENTS /\ last'.key = k
                /\ last'.update \in Commands \ {"/cancel"})
                => /\ conversations'[k] = RECEIVE_ASSIGNMENTS
                   /\ user_data'[k[2]] = user_data[k[2]]]_vars

C15_Witness ==
    /\ last.state0 = RECEIVE_ASSIGNMENTS
    /\ last.update = "/split"
    /\ last.handler = "split_command"
    /\ Delivered("usage")
    /\ State = RECEIVE_ASSIGNMENTS
    /\ Session # << >>

\* C16: a conversation in RECEIVE_ASSIGNMENTS always has a BillRecord with a
\* non-empty items list in its session, and receive_assignments never runs
\* on an empty session.
C16_AwaitingHasBill ==
    /\ \A k \in Keys :
          conversations[k] = RECEIVE_ASSIGNMENTS
              => /\ user_data[k[2]] # << >>
                 /\ ~NoItems(user_data[k[2]][1])
    /\ last.handler = "receive_assignments" => last.data0 # << >>

\* C17: a conversation in IDLE never has a BillRecord in its session.
C17_IdleHasNoBill ==
    \A k \in Keys : conversations[k] = IDLE => user_data[k[2]] = << >>

====
